---- MODULE Spec2Model ----
(***************************************************************************)
(* A model of the WebTransport-over-HTTP/3 session core of                 *)
(* quic/core/http/web_transport_http3.cc: the session's close state         *)
(* machine, its stream bookkeeping, its datagram context registration, the *)
(* receive side of a unidirectional stream and the error-code mapping.     *)
(*                                                                         *)
(* The handlers are called by the HTTP/3 stack and by the application in   *)
(* any order; every call is one action.  QUIC_BUG and QUICHE_DCHECK only   *)
(* report: the handlers are modelled as a build without fatal assertions   *)
(* runs them, i.e. execution continues after the report.                   *)
(***************************************************************************)
EXTENDS Integers, Sequences, FiniteSets, Bags, TLC

\* The number of handler calls recorded per behaviour.
MaxCalls == 4
\* The number of datagram context messages delivered per behaviour.
MaxContextCalls == 3

VARIABLES
  perspective,                       \* session_->perspective()
  ready_,
  close_sent_,
  close_received_,
  close_notified_,
  error_code_,
  error_message_,
  streams_,
  incoming_bidirectional_streams_,
  incoming_unidirectional_streams_,
  context_is_known_,
  context_id_,
  context_currently_registered_,
  visitor_calls,                     \* the calls made on visitor_, in order
  connect_writes,                    \* what was written on connect_stream_, in order
  stream_resets,                     \* bag of <<id, code>>: session_->ResetStream calls
  datagram_calls,                    \* Register/Unregister calls on connect_stream_
  calls,                             \* the handler calls made so far, in order
  buffered_streams,                  \* session_'s streams received for this session
                                     \* before it existed, in order of arrival
  \* an OnConnectStreamClosing that is run statement by statement
  closing_pc,                        \* "idle", or "resetting" inside its for loop
  streams,                           \* its local copy of streams_
  reset_done,                        \* the ids of the copy that the loop has reset
  \* a received WebTransportHttp3UnidirectionalStream and its sequencer
  wire,                              \* the bytes the peer sends on the stream
  received,                          \* offsets of the bytes that have arrived
  num_bytes_consumed,                \* sequencer()->NumBytesConsumed()
  close_offset,                      \* sequencer()->close_offset(): {} until the FIN arrives
  session_id_,                       \* absl::optional<WebTransportSessionId>
  associations,                      \* AssociateIncomingWebTransportStreamWithSession calls
  adapter_notified,                  \* adapter_.OnDataAvailable() has been called
  uni_last,                          \* the last stream event and what it did
  stream_type,                       \* READ_UNIDIRECTIONAL or WRITE_UNIDIRECTIONAL
  needs_to_send_preamble_,
  stream_writes,                     \* the WriteOrBufferData calls of the stream
  stream_errors,                     \* the OnUnrecoverableError calls of the stream
  \* an application of the error-code mapping
  codec_call                         \* the last mapping call: function, input, result

session_vars == <<perspective, ready_, close_sent_, close_received_, close_notified_,
                  error_code_, error_message_, streams_,
                  incoming_bidirectional_streams_, incoming_unidirectional_streams_,
                  context_is_known_, context_id_, context_currently_registered_,
                  visitor_calls, connect_writes, stream_resets, datagram_calls, calls,
                  closing_pc, streams, reset_done, buffered_streams>>

uni_vars == <<wire, received, num_bytes_consumed, close_offset, session_id_,
              associations, adapter_notified, uni_last, stream_type,
              needs_to_send_preamble_, stream_writes, stream_errors>>
preamble_vars == <<stream_type, needs_to_send_preamble_, stream_writes, stream_errors>>

vars == <<session_vars, uni_vars, codec_call>>

close_vars == <<close_sent_, close_received_, close_notified_, error_code_,
                error_message_>>
stream_vars == <<streams_, incoming_bidirectional_streams_,
                 incoming_unidirectional_streams_>>
context_vars == <<context_is_known_, context_id_, context_currently_registered_>>
closing_vars == <<closing_pc, streams, reset_done>>

\* A call without arguments.
NoValue == "none"
\* absl::optional<QuicDatagramContextId>: the empty set is absl::nullopt, {c} holds c.
NoContext == {}

\* The (error_code, error_message) pairs the callers pass.
ErrorInputs == { [code |-> 0, message |-> ""],
                 [code |-> 17, message |-> "bye"],
                 [code |-> 9, message |-> "srv"] }

\* ---- what the session calls on its collaborators ----

VisitorCall(name, code, message) == [call |-> name, code |-> code, message |-> message]
OnSessionClosedCall(code, message) == VisitorCall("OnSessionClosed", code, message)
OnSessionReadyCall == VisitorCall("OnSessionReady", 0, "")

\* connect_stream_->WriteCapsule(Capsule::CloseWebTransportSession(c, m), fin = true)
CapsuleWrite(code, message) ==
  [write |-> "CLOSE_WEBTRANSPORT_SESSION", code |-> code, message |-> message, fin |-> TRUE]
\* connect_stream_->WriteOrBufferBody("", fin = true)
FinWrite == [write |-> "body", code |-> 0, message |-> "", fin |-> TRUE]

Call(op, arg) == [op |-> op, arg |-> arg]
\* The one-element sequence of the value an optional holds.
SetToSeqOfOne(opt) == << CHOOSE v \in opt : TRUE >>
\* A handler of the session records its call; it touches neither the received
\* unidirectional stream nor the error-code mapping, and it runs as one step.
Record(op, arg) ==
  /\ calls' = Append(calls, Call(op, arg))
  /\ UNCHANGED <<wire, received, num_bytes_consumed, close_offset, session_id_,
                 associations, adapter_notified, uni_last, codec_call>>
  /\ UNCHANGED <<closing_pc, streams, reset_done>>
  /\ UNCHANGED buffered_streams
  /\ UNCHANGED <<stream_type, needs_to_send_preamble_, stream_writes, stream_errors>>
CanCall == Len(calls) < MaxCalls

\* ---- WebTransportHttp3::WebTransportHttp3 ----

\* connect_stream_->GetNextDatagramContextId(): the first id a client allocates.
GetNextDatagramContextId == 0

InitSession(p, attempt_to_use_datagram_contexts) ==
  /\ perspective = p
  /\ ready_ = FALSE
  /\ close_sent_ = FALSE
  /\ close_received_ = FALSE
  /\ close_notified_ = FALSE
  /\ error_code_ = 0
  /\ error_message_ = ""
  /\ streams_ = {}
  /\ incoming_bidirectional_streams_ = <<>>
  /\ incoming_unidirectional_streams_ = <<>>
  /\ context_is_known_ = (p = "IS_CLIENT")
  /\ context_currently_registered_ = (p = "IS_CLIENT")
  /\ context_id_ = IF p = "IS_CLIENT" /\ attempt_to_use_datagram_contexts
                   THEN {GetNextDatagramContextId} ELSE NoContext
  /\ visitor_calls = <<>>
  /\ connect_writes = <<>>
  /\ stream_resets = EmptyBag
  /\ datagram_calls = <<>>
  /\ calls = <<>>
  /\ closing_pc = "idle"
  /\ streams = {}
  /\ reset_done = {}

\* ---- WebTransportHttp3::AssociateStream ----

\* connect_stream_->id(), which is id_
ConnectStreamId == 0
\* The data streams of the session.
StreamIds == 1..4

\* QuicUtils::IsOutgoingStreamId for an IETF QUIC version: the low bit of a stream
\* id names its initiator (0 the client, 1 the server).
IsOutgoingStreamId(stream_id, p) == (stream_id % 2 = 1) <=> (p = "IS_SERVER")
\* QuicUtils::IsBidirectionalStreamId for an IETF QUIC version: the second bit.
IsBidirectionalStreamId(stream_id) == (stream_id % 4) < 2

\* Mutant: the direction of the stream id is not looked at.
AssociateStream_IgnoresDirection(stream_id) ==
  /\ CanCall
  /\ Record("AssociateStream", stream_id)
  /\ streams_' = streams_ \cup {stream_id}
  /\ IF IsOutgoingStreamId(stream_id, perspective)
     THEN UNCHANGED <<incoming_bidirectional_streams_,
                      incoming_unidirectional_streams_, visitor_calls>>
     ELSE /\ incoming_bidirectional_streams_' =
               Append(incoming_bidirectional_streams_, stream_id)
          /\ visitor_calls' = Append(visitor_calls,
               VisitorCall("OnIncomingBidirectionalStreamAvailable", 0, ""))
          /\ UNCHANGED incoming_unidirectional_streams_
  /\ UNCHANGED <<perspective, ready_, close_vars, context_vars, connect_writes,
                 stream_resets, datagram_calls>>

AssociateStream(stream_id) ==
  /\ CanCall
  /\ Record("AssociateStream", stream_id)
  /\ streams_' = streams_ \cup {stream_id}
  /\ IF IsOutgoingStreamId(stream_id, perspective)
     THEN UNCHANGED <<incoming_bidirectional_streams_,
                      incoming_unidirectional_streams_, visitor_calls>>
     ELSE IF IsBidirectionalStreamId(stream_id)
     THEN /\ incoming_bidirectional_streams_' =
               Append(incoming_bidirectional_streams_, stream_id)
          /\ visitor_calls' = Append(visitor_calls,
               VisitorCall("OnIncomingBidirectionalStreamAvailable", 0, ""))
          /\ UNCHANGED incoming_unidirectional_streams_
     ELSE /\ incoming_unidirectional_streams_' =
               Append(incoming_unidirectional_streams_, stream_id)
          /\ visitor_calls' = Append(visitor_calls,
               VisitorCall("OnIncomingUnidirectionalStreamAvailable", 0, ""))
          /\ UNCHANGED incoming_bidirectional_streams_
  /\ UNCHANGED <<perspective, ready_, close_vars, context_vars, connect_writes,
                 stream_resets, datagram_calls>>

\* ---- WebTransportHttp3::OnStreamClosed ----
\* Called by a data stream's OnClose: the stream leaves the session's set.
OnStreamClosed(stream_id) ==
  /\ CanCall
  /\ Record("OnStreamClosed", stream_id)
  /\ streams_' = streams_ \ {stream_id}
  /\ UNCHANGED <<perspective, ready_, close_vars, incoming_bidirectional_streams_,
                 incoming_unidirectional_streams_, context_vars, visitor_calls,
                 connect_writes, stream_resets, datagram_calls>>

\* ---- WebTransportHttp3::MaybeNotifyClose ----
\* code and message are error_code_ and error_message_ as they stand when the
\* caller reaches its MaybeNotifyClose() call.
\* Mutant: the close_notified_ gate is missing.
MaybeNotifyClose_Ungated(code, message) ==
  /\ close_notified_' = TRUE
  /\ visitor_calls' = Append(visitor_calls, OnSessionClosedCall(code, message))

MaybeNotifyClose(code, message) ==
  IF close_notified_
  THEN UNCHANGED <<close_notified_, visitor_calls>>
  ELSE /\ close_notified_' = TRUE
       /\ visitor_calls' = Append(visitor_calls, OnSessionClosedCall(code, message))

\* ---- WebTransportHttp3::OnConnectStreamClosing ----
ResetAll(ids) == SetToBag({ <<id, "QUIC_STREAM_WEBTRANSPORT_SESSION_GONE">> : id \in ids })

\* Mutant: streams_ is cleared before it is copied, so nothing is reset.
OnConnectStreamClosing_ClearsFirst ==
  /\ CanCall
  /\ Record("OnConnectStreamClosing", NoValue)
  /\ stream_resets' = stream_resets
  /\ streams_' = {}
  /\ context_currently_registered_' = FALSE
  /\ datagram_calls' =
       (IF context_currently_registered_
        THEN Append(datagram_calls, Call("UnregisterHttp3DatagramContextId", context_id_))
        ELSE datagram_calls)
       \o << Call("UnregisterHttp3DatagramRegistrationVisitor", NoValue) >>
  /\ MaybeNotifyClose(error_code_, error_message_)
  /\ UNCHANGED <<perspective, ready_, close_sent_, close_received_, error_code_,
                 error_message_, incoming_bidirectional_streams_,
                 incoming_unidirectional_streams_, context_is_known_, context_id_,
                 connect_writes>>

OnConnectStreamClosing ==
  /\ CanCall
  /\ Record("OnConnectStreamClosing", NoValue)
  /\ stream_resets' = stream_resets (+) ResetAll(streams_)
  /\ streams_' = {}
  /\ context_currently_registered_' = FALSE
  /\ datagram_calls' =
       (IF context_currently_registered_
        THEN Append(datagram_calls, Call("UnregisterHttp3DatagramContextId", context_id_))
        ELSE datagram_calls)
       \o << Call("UnregisterHttp3DatagramRegistrationVisitor", NoValue) >>
  /\ MaybeNotifyClose(error_code_, error_message_)
  /\ UNCHANGED <<perspective, ready_, close_sent_, close_received_, error_code_,
                 error_message_, incoming_bidirectional_streams_,
                 incoming_unidirectional_streams_, context_is_known_, context_id_,
                 connect_writes>>

\* ---- WebTransportHttp3::OnConnectStreamClosing, statement by statement ----
\* session_->ResetStream closes the stream it resets, and the closing stream calls
\* back into the session (OnStreamClosed) while the for loop is still running.

\* Mutant: streams_ is iterated in place: it is neither copied nor cleared.
OnConnectStreamClosing_Begin_NoClear ==
  /\ CanCall
  /\ closing_pc = "idle"
  /\ calls' = Append(calls, Call("OnConnectStreamClosing", NoValue))
  /\ streams' = streams_
  /\ reset_done' = {}
  /\ closing_pc' = "resetting"
  /\ UNCHANGED <<perspective, ready_, close_vars, stream_vars, context_vars,
                 visitor_calls, connect_writes, stream_resets, datagram_calls,
                 buffered_streams, uni_vars, codec_call>>

\* Lines 85-86: copy streams_, clear it.
OnConnectStreamClosing_Begin ==
  /\ CanCall
  /\ closing_pc = "idle"
  /\ calls' = Append(calls, Call("OnConnectStreamClosing", NoValue))
  /\ streams' = streams_
  /\ streams_' = {}
  /\ reset_done' = {}
  /\ closing_pc' = "resetting"
  /\ UNCHANGED <<perspective, ready_, close_vars, incoming_bidirectional_streams_,
                 incoming_unidirectional_streams_, context_vars, visitor_calls,
                 connect_writes, stream_resets, datagram_calls, buffered_streams,
                 uni_vars, codec_call>>

\* Lines 87-89: one iteration of the loop over the copy.
OnConnectStreamClosing_ResetStream(id) ==
  /\ closing_pc = "resetting"
  /\ id \in streams \ reset_done
  /\ stream_resets' = stream_resets (+) ResetAll({id})
  /\ reset_done' = reset_done \cup {id}
  /\ UNCHANGED <<perspective, ready_, close_vars, stream_vars, context_vars,
                 visitor_calls, connect_writes, datagram_calls, calls, closing_pc,
                 streams, buffered_streams, uni_vars, codec_call>>

\* Lines 90-96, after the loop.
OnConnectStreamClosing_Finish ==
  /\ closing_pc = "resetting"
  /\ reset_done = streams
  /\ context_currently_registered_' = FALSE
  /\ datagram_calls' =
       (IF context_currently_registered_
        THEN Append(datagram_calls, Call("UnregisterHttp3DatagramContextId", context_id_))
        ELSE datagram_calls)
       \o << Call("UnregisterHttp3DatagramRegistrationVisitor", NoValue) >>
  /\ MaybeNotifyClose(error_code_, error_message_)
  /\ closing_pc' = "idle"
  /\ streams' = {}
  /\ reset_done' = {}
  /\ UNCHANGED <<perspective, ready_, close_sent_, close_received_, error_code_,
                 error_message_, stream_vars, context_is_known_, context_id_,
                 connect_writes, stream_resets, calls, buffered_streams, uni_vars,
                 codec_call>>

\* ---- WebTransportHttp3::CloseSession ----
\* Mutant: the error is recorded before close_received_ is looked at.
CloseSession_RecordsFirst(error_code, error_message) ==
  /\ CanCall
  /\ Record("CloseSession", [code |-> error_code, message |-> error_message])
  /\ IF close_sent_
     THEN UNCHANGED <<close_sent_, error_code_, error_message_, connect_writes>>
     ELSE /\ close_sent_' = TRUE
          /\ error_code_' = error_code
          /\ error_message_' = error_message
          /\ IF close_received_
             THEN UNCHANGED connect_writes
             ELSE connect_writes' =
                    Append(connect_writes, CapsuleWrite(error_code, error_message))
  /\ UNCHANGED <<perspective, ready_, close_received_, close_notified_, stream_vars,
                 context_vars, visitor_calls, stream_resets, datagram_calls>>

\* Mutant: close_sent_ is not looked at.
CloseSession_NoSentCheck(error_code, error_message) ==
  /\ CanCall
  /\ Record("CloseSession", [code |-> error_code, message |-> error_message])
  /\ close_sent_' = TRUE
  /\ IF close_received_
     THEN UNCHANGED <<error_code_, error_message_, connect_writes>>
     ELSE /\ error_code_' = error_code
          /\ error_message_' = error_message
          /\ connect_writes' =
               Append(connect_writes, CapsuleWrite(error_code, error_message))
  /\ UNCHANGED <<perspective, ready_, close_received_, close_notified_, stream_vars,
                 context_vars, visitor_calls, stream_resets, datagram_calls>>

CloseSession(error_code, error_message) ==
  /\ CanCall
  /\ Record("CloseSession", [code |-> error_code, message |-> error_message])
  /\ IF close_sent_
     THEN \* QUIC_BUG, return
          UNCHANGED <<close_sent_, error_code_, error_message_, connect_writes>>
     ELSE /\ close_sent_' = TRUE
          /\ IF close_received_
             THEN UNCHANGED <<error_code_, error_message_, connect_writes>>
             ELSE /\ error_code_' = error_code
                  /\ error_message_' = error_message
                  /\ connect_writes' =
                       Append(connect_writes, CapsuleWrite(error_code, error_message))
  /\ UNCHANGED <<perspective, ready_, close_received_, close_notified_, stream_vars,
                 context_vars, visitor_calls, stream_resets, datagram_calls>>

\* ---- WebTransportHttp3::OnCloseReceived ----
\* Mutant: the close_sent_ check is missing, so the peer's close always wins.
OnCloseReceived_NoRaceCheck(error_code, error_message) ==
  /\ CanCall
  /\ Record("OnCloseReceived", [code |-> error_code, message |-> error_message])
  /\ close_received_' = TRUE
  /\ error_code_' = error_code
  /\ error_message_' = error_message
  /\ connect_writes' = Append(connect_writes, FinWrite)
  /\ MaybeNotifyClose(error_code, error_message)
  /\ UNCHANGED <<perspective, ready_, close_sent_, stream_vars, context_vars,
                 stream_resets, datagram_calls>>

OnCloseReceived(error_code, error_message) ==
  /\ CanCall
  /\ Record("OnCloseReceived", [code |-> error_code, message |-> error_message])
  \* if (close_received_) QUIC_BUG: reported, and the handler goes on
  /\ close_received_' = TRUE
  /\ IF close_sent_
     THEN UNCHANGED <<error_code_, error_message_, connect_writes, close_notified_,
                      visitor_calls>>
     ELSE /\ error_code_' = error_code
          /\ error_message_' = error_message
          /\ connect_writes' = Append(connect_writes, FinWrite)
          /\ MaybeNotifyClose(error_code, error_message)
  /\ UNCHANGED <<perspective, ready_, close_sent_, stream_vars, context_vars,
                 stream_resets, datagram_calls>>

\* ---- WebTransportHttp3::OnConnectStreamFinReceived ----
\* Mutant: the FIN is not echoed.
OnConnectStreamFinReceived_NoEcho ==
  /\ CanCall
  /\ Record("OnConnectStreamFinReceived", NoValue)
  /\ IF close_received_
     THEN UNCHANGED <<close_received_, close_notified_, visitor_calls>>
     ELSE /\ close_received_' = TRUE
          /\ IF close_sent_
             THEN UNCHANGED <<close_notified_, visitor_calls>>
             ELSE MaybeNotifyClose(error_code_, error_message_)
  /\ UNCHANGED <<perspective, ready_, close_sent_, error_code_, error_message_,
                 connect_writes, stream_vars, context_vars, stream_resets,
                 datagram_calls>>

\* Mutant: close_received_ is not set before the FIN is echoed.
OnConnectStreamFinReceived_NoFlag ==
  /\ CanCall
  /\ Record("OnConnectStreamFinReceived", NoValue)
  /\ IF close_received_ \/ close_sent_
     THEN UNCHANGED <<connect_writes, close_notified_, visitor_calls>>
     ELSE /\ connect_writes' = Append(connect_writes, FinWrite)
          /\ MaybeNotifyClose(error_code_, error_message_)
  /\ UNCHANGED <<perspective, ready_, close_sent_, close_received_, error_code_,
                 error_message_, stream_vars, context_vars, stream_resets,
                 datagram_calls>>

OnConnectStreamFinReceived ==
  /\ CanCall
  /\ Record("OnConnectStreamFinReceived", NoValue)
  /\ IF close_received_
     THEN UNCHANGED <<close_received_, connect_writes, close_notified_, visitor_calls>>
     ELSE /\ close_received_' = TRUE
          /\ IF close_sent_
             THEN UNCHANGED <<connect_writes, close_notified_, visitor_calls>>
             ELSE /\ connect_writes' = Append(connect_writes, FinWrite)
                  /\ MaybeNotifyClose(error_code_, error_message_)
  /\ UNCHANGED <<perspective, ready_, close_sent_, error_code_, error_message_,
                 stream_vars, context_vars, stream_resets, datagram_calls>>

\* ---- WebTransportHttp3::CloseSessionWithFinOnlyForTests ----
CloseSessionWithFinOnlyForTests ==
  /\ CanCall
  /\ Record("CloseSessionWithFinOnlyForTests", NoValue)
  \* QUICHE_DCHECK(!close_sent_): reported, and the function goes on
  /\ close_sent_' = TRUE
  /\ IF close_received_
     THEN UNCHANGED connect_writes
     ELSE connect_writes' = Append(connect_writes, FinWrite)
  /\ UNCHANGED <<perspective, ready_, close_received_, close_notified_, error_code_,
                 error_message_, stream_vars, context_vars, visitor_calls,
                 stream_resets, datagram_calls>>

\* ---- WebTransportHttp3::HeadersReceived ----
\* A header block is modelled by what QuicSpdyStream::ParseHeaderStatusCode makes of
\* it: parsed (false for a missing or unparsable :status) and the status code.
HeaderBlocks == { [parsed |-> FALSE, status_code |-> 0],
                  [parsed |-> TRUE, status_code |-> 200],
                  [parsed |-> TRUE, status_code |-> 404] }

HeadersAccepted(headers) ==
  \/ perspective # "IS_CLIENT"
  \/ /\ headers.parsed
     /\ headers.status_code >= 200
     /\ headers.status_code <= 299

\* session_->ProcessBufferedWebTransportStreamsForSession(this): the platform
\* calls AssociateStream for every stream it buffered for the session, in order.
\* What AssociateStream does to the stream set, the queues and the visitor:
Associate(s, stream_id) ==
  IF IsOutgoingStreamId(stream_id, perspective)
  THEN [s EXCEPT !.streams = @ \cup {stream_id}]
  ELSE IF IsBidirectionalStreamId(stream_id)
  THEN [s EXCEPT !.streams = @ \cup {stream_id},
                 !.bidirectional = Append(@, stream_id),
                 !.visitor = Append(@,
                    VisitorCall("OnIncomingBidirectionalStreamAvailable", 0, ""))]
  ELSE [s EXCEPT !.streams = @ \cup {stream_id},
                 !.unidirectional = Append(@, stream_id),
                 !.visitor = Append(@,
                    VisitorCall("OnIncomingUnidirectionalStreamAvailable", 0, ""))]

RECURSIVE ProcessBufferedWebTransportStreamsForSession(_, _)
ProcessBufferedWebTransportStreamsForSession(s, buffered) ==
  IF buffered = <<>> THEN s
  ELSE ProcessBufferedWebTransportStreamsForSession(Associate(s, Head(buffered)),
                                                    Tail(buffered))

\* Mutant: the buffered streams are drained before OnSessionReady is called.
HeadersReceived_DrainsFirst(headers) ==
  /\ CanCall
  /\ calls' = Append(calls, Call("HeadersReceived", headers))
  /\ IF HeadersAccepted(headers)
     THEN LET s == ProcessBufferedWebTransportStreamsForSession(
                     [streams |-> streams_,
                      bidirectional |-> incoming_bidirectional_streams_,
                      unidirectional |-> incoming_unidirectional_streams_,
                      visitor |-> visitor_calls],
                     buffered_streams)
          IN  /\ ready_' = TRUE
              /\ visitor_calls' = Append(s.visitor, OnSessionReadyCall)
              /\ streams_' = s.streams
              /\ incoming_bidirectional_streams_' = s.bidirectional
              /\ incoming_unidirectional_streams_' = s.unidirectional
              /\ buffered_streams' = <<>>
     ELSE UNCHANGED <<ready_, visitor_calls, stream_vars, buffered_streams>>
  /\ UNCHANGED <<perspective, close_vars, context_vars, connect_writes,
                 stream_resets, datagram_calls, closing_vars, uni_vars, codec_call>>

HeadersReceived(headers) ==
  /\ CanCall
  /\ calls' = Append(calls, Call("HeadersReceived", headers))
  /\ IF HeadersAccepted(headers)
     THEN LET s == ProcessBufferedWebTransportStreamsForSession(
                     [streams |-> streams_,
                      bidirectional |-> incoming_bidirectional_streams_,
                      unidirectional |-> incoming_unidirectional_streams_,
                      visitor |-> Append(visitor_calls, OnSessionReadyCall)],
                     buffered_streams)
          IN  /\ ready_' = TRUE
              /\ visitor_calls' = s.visitor
              /\ streams_' = s.streams
              /\ incoming_bidirectional_streams_' = s.bidirectional
              /\ incoming_unidirectional_streams_' = s.unidirectional
              /\ buffered_streams' = <<>>
     ELSE UNCHANGED <<ready_, visitor_calls, stream_vars, buffered_streams>>
  /\ UNCHANGED <<perspective, close_vars, context_vars, connect_writes,
                 stream_resets, datagram_calls, closing_vars, uni_vars, codec_call>>

\* ---- WebTransportHttp3::OnContextReceived ----
CanCallContext == Len(calls) < MaxContextCalls

ResetConnectStream(code) == stream_resets (+) SetToBag({ <<ConnectStreamId, code>> })

\* Mutant: the server does not look at context_currently_registered_.
OnContextReceived_NoDupCheck(stream_id, context_id, format_type, format_additional_data) ==
  /\ CanCallContext
  /\ Record("OnContextReceived",
            [stream_id |-> stream_id, context_id |-> context_id,
             format_type |-> format_type,
             format_additional_data |-> format_additional_data])
  /\ IF stream_id # ConnectStreamId \/ format_type # "WEBTRANSPORT"
     THEN UNCHANGED <<context_vars, stream_resets, datagram_calls>>
     ELSE IF format_additional_data # ""
     THEN /\ stream_resets' = ResetConnectStream("QUIC_BAD_APPLICATION_PAYLOAD")
          /\ UNCHANGED <<context_vars, datagram_calls>>
     ELSE /\ context_is_known_' = TRUE
          /\ context_id_' = IF context_is_known_ THEN context_id_ ELSE context_id
          /\ IF context_id # context_id_' \/ perspective # "IS_SERVER"
             THEN UNCHANGED <<context_currently_registered_, stream_resets,
                              datagram_calls>>
             ELSE /\ context_currently_registered_' = TRUE
                  /\ datagram_calls' = Append(datagram_calls,
                       Call("RegisterHttp3DatagramContextId", context_id_'))
                  /\ UNCHANGED stream_resets
  /\ UNCHANGED <<perspective, ready_, close_vars, stream_vars, visitor_calls,
                 connect_writes>>

\* Mutant: the context id of every well-formed registration is adopted.
OnContextReceived_AlwaysAdopts(stream_id, context_id, format_type, format_additional_data) ==
  /\ CanCallContext
  /\ Record("OnContextReceived",
            [stream_id |-> stream_id, context_id |-> context_id,
             format_type |-> format_type,
             format_additional_data |-> format_additional_data])
  /\ IF stream_id # ConnectStreamId \/ format_type # "WEBTRANSPORT"
     THEN UNCHANGED <<context_vars, stream_resets, datagram_calls>>
     ELSE IF format_additional_data # ""
     THEN /\ stream_resets' = ResetConnectStream("QUIC_BAD_APPLICATION_PAYLOAD")
          /\ UNCHANGED <<context_vars, datagram_calls>>
     ELSE /\ context_is_known_' = TRUE
          /\ context_id_' = context_id
          /\ IF perspective # "IS_SERVER"
             THEN UNCHANGED <<context_currently_registered_, stream_resets,
                              datagram_calls>>
             ELSE IF context_currently_registered_
             THEN /\ stream_resets' = ResetConnectStream("QUIC_STREAM_CANCELLED")
                  /\ UNCHANGED <<context_currently_registered_, datagram_calls>>
             ELSE /\ context_currently_registered_' = TRUE
                  /\ datagram_calls' = Append(datagram_calls,
                       Call("RegisterHttp3DatagramContextId", context_id_'))
                  /\ UNCHANGED stream_resets
  /\ UNCHANGED <<perspective, ready_, close_vars, stream_vars, visitor_calls,
                 connect_writes>>

OnContextReceived(stream_id, context_id, format_type, format_additional_data) ==
  /\ CanCallContext
  /\ Record("OnContextReceived",
            [stream_id |-> stream_id, context_id |-> context_id,
             format_type |-> format_type,
             format_additional_data |-> format_additional_data])
  /\ IF stream_id # ConnectStreamId
     THEN \* QUIC_BUG, return
          UNCHANGED <<context_vars, stream_resets, datagram_calls>>
     ELSE IF format_type # "WEBTRANSPORT"
     THEN UNCHANGED <<context_vars, stream_resets, datagram_calls>>
     ELSE IF format_additional_data # ""
     THEN /\ stream_resets' = ResetConnectStream("QUIC_BAD_APPLICATION_PAYLOAD")
          /\ UNCHANGED <<context_vars, datagram_calls>>
     ELSE /\ context_is_known_' = TRUE
          /\ context_id_' = IF context_is_known_ THEN context_id_ ELSE context_id
          /\ IF context_id # context_id_'
             THEN UNCHANGED <<context_currently_registered_, stream_resets,
                              datagram_calls>>
             ELSE IF perspective # "IS_SERVER"
             THEN UNCHANGED <<context_currently_registered_, stream_resets,
                              datagram_calls>>
             ELSE IF context_currently_registered_
             THEN /\ stream_resets' = ResetConnectStream("QUIC_STREAM_CANCELLED")
                  /\ UNCHANGED <<context_currently_registered_, datagram_calls>>
             ELSE /\ context_currently_registered_' = TRUE
                  /\ datagram_calls' = Append(datagram_calls,
                       Call("RegisterHttp3DatagramContextId", context_id_'))
                  /\ UNCHANGED stream_resets
  /\ UNCHANGED <<perspective, ready_, close_vars, stream_vars, visitor_calls,
                 connect_writes>>

\* ---- WebTransportHttp3::OnContextClosed ----
OnContextClosed(stream_id, context_id) ==
  /\ CanCallContext
  /\ Record("OnContextClosed", [stream_id |-> stream_id, context_id |-> context_id])
  /\ IF stream_id # ConnectStreamId
     THEN \* QUIC_BUG, return
          UNCHANGED stream_resets
     ELSE IF context_id # context_id_
     THEN UNCHANGED stream_resets
     ELSE stream_resets' = ResetConnectStream("QUIC_BAD_APPLICATION_PAYLOAD")
  /\ UNCHANGED <<perspective, ready_, close_vars, stream_vars, context_vars,
                 visitor_calls, connect_writes, datagram_calls>>

\* ---- WebTransportHttp3::OnHttp3Datagram ----
\* QUICHE_DCHECK_EQ(stream_id, connect_stream_->id()) and
\* QUICHE_DCHECK(context_id == context_id_) report only.
OnHttp3Datagram(stream_id, context_id, payload) ==
  /\ CanCallContext
  /\ Record("OnHttp3Datagram",
            [stream_id |-> stream_id, context_id |-> context_id, payload |-> payload])
  /\ visitor_calls' = Append(visitor_calls, VisitorCall("OnDatagramReceived", 0, payload))
  /\ UNCHANGED <<perspective, ready_, close_vars, stream_vars, context_vars,
                 connect_writes, stream_resets, datagram_calls>>

\* ---- the session's close state machine under every order of calls ----

\* No stream was buffered for the session, no unidirectional stream has been
\* received and no error code mapped.
NoStream ==
  /\ buffered_streams = <<>>
  /\ wire = <<>>
  /\ received = {}
  /\ num_bytes_consumed = 0
  /\ close_offset = {}
  /\ session_id_ = {}
  /\ associations = <<>>
  /\ adapter_notified = FALSE
  /\ uni_last = "none"
  /\ stream_type = "READ_UNIDIRECTIONAL"
  /\ needs_to_send_preamble_ = FALSE
  /\ stream_writes = <<>>
  /\ stream_errors = <<>>
NoMapping == codec_call = [function |-> "none"]

Init ==
  /\ \E p \in {"IS_CLIENT", "IS_SERVER"} : \E attempt \in BOOLEAN : InitSession(p, attempt)
  /\ NoStream
  /\ NoMapping

Next ==
  \/ \E e \in ErrorInputs : CloseSession(e.code, e.message)
  \/ \E e \in ErrorInputs : OnCloseReceived(e.code, e.message)
  \/ OnConnectStreamFinReceived
  \/ CloseSessionWithFinOnlyForTests
  \/ OnConnectStreamClosing
  \/ \E h \in HeaderBlocks : HeadersReceived(h)

Spec == Init /\ [][Next]_vars

\* ---- reading the recorded calls ----

HasRun(op) == \E i \in 1..Len(calls) : calls[i].op = op
IsClosedCall(v) == v.call = "OnSessionClosed"
ClosedCalls == SelectSeq(visitor_calls, IsClosedCall)
Error == [code |-> error_code_, message |-> error_message_]
\* The step just taken is a call of op.
Step(op) == /\ Len(calls') = Len(calls) + 1
            /\ calls'[Len(calls')].op = op
LastCallIs(op) == Len(calls) > 0 /\ calls[Len(calls)].op = op

\* C1: OnSessionClosed is delivered at most once under every order of
\* CloseSession, OnCloseReceived, OnConnectStreamFinReceived and
\* OnConnectStreamClosing, and exactly once in every state reached after
\* OnConnectStreamClosing has run.
C1_ClosedOnce ==
  /\ Len(ClosedCalls) <= 1
  /\ close_notified_ <=> (Len(ClosedCalls) = 1)
  /\ HasRun("OnConnectStreamClosing") => Len(ClosedCalls) = 1

C1_Witness ==
  /\ HasRun("CloseSession")
  /\ HasRun("OnCloseReceived")
  /\ HasRun("OnConnectStreamFinReceived")
  /\ LastCallIs("OnConnectStreamClosing")
  /\ Len(ClosedCalls) = 1

\* C2 as stated: close_notified implies close_sent or close_received.
C2_Original == close_notified_ => (close_sent_ \/ close_received_)

\* C2 amended: close_notified implies close_sent, close_received or that
\* OnConnectStreamClosing has run; OnConnectStreamClosing always leaves
\* close_notified set, whatever close_sent and close_received are.
C2_NotifiedImplies ==
  /\ close_notified_ =>
       (close_sent_ \/ close_received_ \/ HasRun("OnConnectStreamClosing"))
  /\ HasRun("OnConnectStreamClosing") => close_notified_

C2_Witness ==
  /\ LastCallIs("OnConnectStreamClosing")
  /\ close_notified_
  /\ ~close_sent_
  /\ ~close_received_

\* C3: whenever both are delivered, OnSessionReady is delivered before
\* OnSessionClosed: no OnSessionReady follows an OnSessionClosed.
C3_ReadyBeforeClosed ==
  \A i, j \in 1..Len(visitor_calls) :
    (i < j /\ visitor_calls[i].call = "OnSessionClosed")
      => visitor_calls[j].call # "OnSessionReady"

\* ---- the close races ----

SetsCloseSent(op) == op \in {"CloseSession", "CloseSessionWithFinOnlyForTests"}
SetsCloseReceived(op) == op \in {"OnCloseReceived", "OnConnectStreamFinReceived"}

\* Call i is a CloseSession made while close_sent_ and close_received_ are false:
\* the session's local close, which records its error and writes the capsule.
LocalCloseAt(i) ==
  /\ calls[i].op = "CloseSession"
  /\ \A k \in 1..(i - 1) : ~SetsCloseSent(calls[k].op) /\ ~SetsCloseReceived(calls[k].op)

\* The same, on a session whose visitor has not been told of a close yet.
LiveLocalCloseAt(i) ==
  /\ LocalCloseAt(i)
  /\ \A k \in 1..(i - 1) : calls[k].op # "OnConnectStreamClosing"

\* Local close at i, the peer's close capsule delivered at j.
LocalFirstRace(i, j) ==
  /\ i < j
  /\ LocalCloseAt(i)
  /\ calls[j].op = "OnCloseReceived"

C4_LocalFirstState ==
  \A i, j \in 1..Len(calls) :
    (LocalFirstRace(i, j) /\ LiveLocalCloseAt(i)) =>
      /\ Error = calls[i].arg
      /\ close_sent_ /\ close_received_
      /\ IF HasRun("OnConnectStreamClosing")
         THEN ClosedCalls =
                << OnSessionClosedCall(calls[i].arg.code, calls[i].arg.message) >>
         ELSE ClosedCalls = <<>>

C4_NoEcho ==
  (Step("OnCloseReceived") /\ \E i \in 1..Len(calls) : LiveLocalCloseAt(i)) =>
     /\ connect_writes' = connect_writes
     /\ visitor_calls' = visitor_calls
     /\ error_code_' = error_code_
     /\ error_message_' = error_message_

RECURSIVE LastCloseReceived(_)
LastCloseReceived(n) ==
  IF n = 0 THEN [code |-> 0, message |-> ""]
  ELSE IF calls[n].op = "OnCloseReceived" THEN calls[n].arg
  ELSE LastCloseReceived(n - 1)
PeerError == LastCloseReceived(Len(calls))

\* C5: CloseSession on a session with close_received set and close_sent clear
\* sets close_sent, writes nothing on the connect stream, makes no visitor call
\* and leaves error_code and error_message at what the peer's close recorded.
C5_Step ==
  (Step("CloseSession") /\ close_received_ /\ ~close_sent_) =>
     /\ close_sent_'
     /\ connect_writes' = connect_writes
     /\ visitor_calls' = visitor_calls
     /\ error_code_' = error_code_
     /\ error_message_' = error_message_
     /\ Error = PeerError

C5_PeerFirst == [][C5_Step]_vars

C5_Witness ==
  /\ Len(calls) = 2
  /\ calls[1].op = "OnCloseReceived"
  /\ calls[1].arg = [code |-> 9, message |-> "srv"]
  /\ calls[2].op = "CloseSession"
  /\ calls[2].arg = [code |-> 17, message |-> "bye"]
  /\ close_sent_
  /\ error_code_ = 9
  /\ error_message_ = "srv"
  /\ connect_writes = << FinWrite >>

\* C6: OnConnectStreamFinReceived on a session with close_sent and close_received
\* clear leaves close_received set, the error at (0, ""), exactly one empty FIN
\* written on the connect stream, and OnSessionClosed(0, "") delivered once.
C6_Step ==
  (Step("OnConnectStreamFinReceived") /\ ~close_sent_ /\ ~close_received_) =>
     /\ close_received_'
     /\ error_code_' = 0
     /\ error_message_' = ""
     /\ connect_writes' = << FinWrite >>
     /\ close_notified_'
     /\ SelectSeq(visitor_calls', IsClosedCall) = << OnSessionClosedCall(0, "") >>

C6_FinOnly == [][C6_Step]_vars

C6_Witness ==
  /\ LastCallIs("OnConnectStreamFinReceived")
  /\ \A k \in 1..(Len(calls) - 1) :
       ~SetsCloseSent(calls[k].op) /\ ~SetsCloseReceived(calls[k].op)
  /\ close_received_
  /\ ~close_sent_
  /\ connect_writes = << FinWrite >>
  /\ visitor_calls = << OnSessionClosedCall(0, "") >>

\* ---- the session's stream set under every order of calls ----

NextStreams ==
  \/ \E id \in StreamIds : AssociateStream(id)
  \/ \E id \in StreamIds : OnStreamClosed(id)
  \/ OnConnectStreamClosing

SpecStreams == Init /\ [][NextStreams]_vars

SessionGone(id) == <<id, "QUIC_STREAM_WEBTRANSPORT_SESSION_GONE">>
\* The ids passed to AssociateStream in the first n calls.
AssociatedIn(n) == { calls[i].arg : i \in { k \in 1..n : calls[k].op = "AssociateStream" } }
\* The ids associated in the first n calls and neither closed nor swept away by an
\* OnConnectStreamClosing since.
LiveIn(n) ==
  { id \in AssociatedIn(n) :
      \E i \in 1..n :
        /\ calls[i].op = "AssociateStream"
        /\ calls[i].arg = id
        /\ \A k \in (i + 1)..n :
             /\ calls[k].op # "OnConnectStreamClosing"
             /\ ~(calls[k].op = "OnStreamClosed" /\ calls[k].arg = id) }

\* C7 as stated: when OnConnectStreamClosing has run, every id passed to
\* AssociateStream before it has been reset with
\* QUIC_STREAM_WEBTRANSPORT_SESSION_GONE.
C7_Original ==
  LastCallIs("OnConnectStreamClosing") =>
    \A id \in AssociatedIn(Len(calls) - 1) : BagIn(SessionGone(id), stream_resets)

\* C7 amended: when OnConnectStreamClosing has run, every id that was in the
\* session's stream set when it started (associated, and not removed since by
\* OnStreamClosed) has been reset with QUIC_STREAM_WEBTRANSPORT_SESSION_GONE, no
\* other id has been, and the stream set is empty.
C7_LiveStreamsReset ==
  /\ streams_ = LiveIn(Len(calls))
  /\ LastCallIs("OnConnectStreamClosing") =>
       /\ streams_ = {}
       /\ \A id \in LiveIn(Len(calls) - 1) : BagIn(SessionGone(id), stream_resets)
  /\ \A id \in StreamIds :
       BagIn(SessionGone(id), stream_resets) =>
         \E n \in 1..Len(calls) :
           calls[n].op = "OnConnectStreamClosing" /\ id \in LiveIn(n - 1)

C7_Witness ==
  /\ Len(calls) = 4
  /\ calls[1].op = "AssociateStream"
  /\ calls[2].op = "AssociateStream"
  /\ calls[3].op = "OnStreamClosed"
  /\ calls[3].arg = calls[1].arg
  /\ calls[2].arg # calls[1].arg
  /\ calls[4].op = "OnConnectStreamClosing"
  /\ stream_resets = SetToBag({ SessionGone(calls[2].arg) })
  /\ streams_ = {}

\* ---- the datagram context under every order of calls ----

\* The stream ids, context ids, format types and additional data the HTTP/3
\* datagram layer delivers.
ContextStreamIds == {ConnectStreamId, 4}
ContextIds == {NoContext, {0}}
FormatTypes == {"WEBTRANSPORT", "UDP_PAYLOAD"}
AdditionalData == {"", "x"}

NextContext ==
  \/ \E sid \in ContextStreamIds, c \in ContextIds, f \in FormatTypes,
        d \in AdditionalData : OnContextReceived(sid, c, f, d)
  \/ \E sid \in ContextStreamIds, c \in ContextIds : OnContextClosed(sid, c)
  \/ \E sid \in ContextStreamIds, c \in ContextIds : OnHttp3Datagram(sid, c, "payload")
  \/ OnConnectStreamClosing

SpecContext == Init /\ [][NextContext]_vars

\* Call i is an OnContextReceived on the connect stream, of WEBTRANSPORT format and
\* with empty additional data.
WellFormedRegistrationAt(i) ==
  /\ calls[i].op = "OnContextReceived"
  /\ calls[i].arg.stream_id = ConnectStreamId
  /\ calls[i].arg.format_type = "WEBTRANSPORT"
  /\ calls[i].arg.format_additional_data = ""

\* Call i is such a registration and names the same context id as the first one.
SameContextRegistrationAt(i) ==
  /\ WellFormedRegistrationAt(i)
  /\ \E k \in 1..i :
       /\ WellFormedRegistrationAt(k)
       /\ \A j \in 1..(k - 1) : ~WellFormedRegistrationAt(j)
       /\ calls[k].arg.context_id = calls[i].arg.context_id

Registrations == { i \in 1..Len(calls) : SameContextRegistrationAt(i) }
RegisterCalls ==
  { i \in 1..Len(datagram_calls) :
      datagram_calls[i].op = "RegisterHttp3DatagramContextId" }

\* C9: on a server, over any sequence of OnContextReceived calls, the first call
\* on the connect stream with WEBTRANSPORT format, empty additional data and the
\* session's context id registers locally and sets context_currently_registered;
\* every later such call resets the connect stream with QUIC_STREAM_CANCELLED and
\* does not register again.
C9_RegisteredOnce ==
  (perspective = "IS_SERVER" /\ ~HasRun("OnConnectStreamClosing")) =>
     /\ Cardinality(RegisterCalls) = (IF Registrations = {} THEN 0 ELSE 1)
     /\ context_currently_registered_ <=> (Registrations # {})
     /\ CopiesIn(<<ConnectStreamId, "QUIC_STREAM_CANCELLED">>, stream_resets) =
          (IF Registrations = {} THEN 0 ELSE Cardinality(Registrations) - 1)

C9_Witness ==
  /\ perspective = "IS_SERVER"
  /\ Len(calls) = 3
  /\ Cardinality(Registrations) = 3
  /\ calls[1].arg.context_id = {0}
  /\ context_id_ = {0}
  /\ Cardinality(RegisterCalls) = 1
  /\ CopiesIn(<<ConnectStreamId, "QUIC_STREAM_CANCELLED">>, stream_resets) = 2

\* ---- a received WebTransportHttp3UnidirectionalStream ----

\* The payload bytes that follow the session id on the wire.
MaxPayloadBytes == 1

\* Encodings of session id 4 as a varint62 of 1, 2, 4 and 8 bytes: the two high bits
\* of the first byte give the length.
SessionIdEncodings ==
  { <<4>>, <<64, 4>>, <<128, 0, 0, 4>>, <<192, 0, 0, 0, 0, 0, 0, 4>> }
Prefixes(bytes) == { SubSeq(bytes, 1, n) : n \in 0..Len(bytes) }
\* What a peer may send before it ends the stream: a session id and some payload,
\* or any prefix of that.
Wires ==
  UNION { Prefixes(enc \o [i \in 1..MaxPayloadBytes |-> 97]) :
            enc \in SessionIdEncodings }

\* QuicDataReader::PeekVarInt62Length
PeekVarInt62Length(bytes) == 2^(bytes[1] \div 64)

RECURSIVE BigEndian(_, _)
BigEndian(bytes, n) == IF n = 0 THEN 0 ELSE BigEndian(bytes, n - 1) * 256 + bytes[n]

\* QuicDataReader::ReadVarInt62: {} when fewer bytes than the length are there,
\* else {value}.
ReadVarInt62(bytes) ==
  IF Len(bytes) = 0 \/ Len(bytes) < PeekVarInt62Length(bytes)
  THEN {}
  ELSE { BigEndian([bytes EXCEPT ![1] = bytes[1] % 64], PeekVarInt62Length(bytes)) }

\* sequencer()->NumBytesBuffered(): the bytes that arrived and are not consumed,
\* those behind a gap too.
NumBytesBuffered == Cardinality({ o \in received : o >= num_bytes_consumed })

\* sequencer()->GetReadableRegion: the bytes from the consumed offset up to the
\* first gap; empty when GetReadableRegion returns false.
RECURSIVE ReadableEnd(_)
ReadableEnd(o) == IF o \in received THEN ReadableEnd(o + 1) ELSE o
GetReadableRegion ==
  SubSeq(wire, num_bytes_consumed + 1, ReadableEnd(num_bytes_consumed))

\* The platform delivers the byte at one offset of the stream.
OnStreamFrame(offset) ==
  /\ offset \notin received
  /\ received' = received \cup {offset}
  /\ uni_last' = "OnStreamFrame"
  /\ UNCHANGED <<wire, num_bytes_consumed, close_offset, session_id_, associations,
                 adapter_notified, session_vars, codec_call, preamble_vars>>

\* The platform delivers the frame that carries the FIN.
OnFinFrame ==
  /\ close_offset = {}
  /\ close_offset' = { Len(wire) }
  /\ uni_last' = "OnFinFrame"
  /\ UNCHANGED <<wire, received, num_bytes_consumed, session_id_, associations,
                 adapter_notified, session_vars, codec_call, preamble_vars>>

\* WebTransportHttp3UnidirectionalStream::ReadSessionId, called with session_id_
\* empty.  uni_last names the way it returns.
\* Mutant: what is buffered is consumed whenever the varint cannot be read yet.
ReadSessionId_AlwaysConsumes ==
  LET region == GetReadableRegion
      session_id == ReadVarInt62(region)
  IN  IF Len(region) = 0
      THEN /\ uni_last' = "ReadSessionId: nothing readable"
           /\ UNCHANGED <<num_bytes_consumed, session_id_, associations>>
      ELSE IF session_id = {}
      THEN /\ num_bytes_consumed' = num_bytes_consumed + NumBytesBuffered
           /\ uni_last' = "ReadSessionId: stream ended prematurely"
           /\ UNCHANGED <<session_id_, associations>>
      ELSE /\ num_bytes_consumed' = num_bytes_consumed + PeekVarInt62Length(region)
           /\ session_id_' = session_id
           /\ associations' = associations \o SetToSeqOfOne(session_id)
           /\ uni_last' = "ReadSessionId: associated"

ReadSessionId ==
  LET region == GetReadableRegion
      session_id == ReadVarInt62(region)
  IN  IF Len(region) = 0
      THEN /\ uni_last' = "ReadSessionId: nothing readable"
           /\ UNCHANGED <<num_bytes_consumed, session_id_, associations>>
      ELSE IF session_id = {}
      THEN IF \E end \in close_offset : num_bytes_consumed + NumBytesBuffered >= end
           THEN /\ num_bytes_consumed' = num_bytes_consumed + NumBytesBuffered
                /\ uni_last' = "ReadSessionId: stream ended prematurely"
                /\ UNCHANGED <<session_id_, associations>>
           ELSE /\ uni_last' = "ReadSessionId: incomplete"
                /\ UNCHANGED <<num_bytes_consumed, session_id_, associations>>
      ELSE /\ num_bytes_consumed' = num_bytes_consumed + PeekVarInt62Length(region)
           /\ session_id_' = session_id
           /\ associations' = associations \o SetToSeqOfOne(session_id)
           /\ uni_last' = "ReadSessionId: associated"

\* WebTransportHttp3UnidirectionalStream::OnDataAvailable
OnDataAvailable ==
  /\ IF session_id_ = {}
     THEN /\ ReadSessionId
          /\ adapter_notified' = (adapter_notified \/ session_id_' # {})
     ELSE /\ adapter_notified' = TRUE
          /\ uni_last' = "adapter_.OnDataAvailable"
          /\ UNCHANGED <<num_bytes_consumed, session_id_, associations>>
  /\ UNCHANGED <<wire, received, close_offset, session_vars, codec_call,
                 preamble_vars>>

InitUni ==
  /\ InitSession("IS_SERVER", FALSE)
  /\ buffered_streams = <<>>
  /\ wire \in Wires
  /\ received = {}
  /\ num_bytes_consumed = 0
  /\ close_offset = {}
  /\ session_id_ = {}
  /\ associations = <<>>
  /\ adapter_notified = FALSE
  /\ uni_last = "none"
  /\ stream_type = "READ_UNIDIRECTIONAL"
  /\ needs_to_send_preamble_ = FALSE
  /\ stream_writes = <<>>
  /\ stream_errors = <<>>
  /\ NoMapping

NextUni ==
  \/ \E o \in 0..(Len(wire) - 1) : OnStreamFrame(o)
  \/ OnFinFrame
  \/ OnDataAvailable

SpecUni == InitUni /\ [][NextUni]_vars

\* The length the first byte of the wire announces for the session id.
SessionIdLength == PeekVarInt62Length(wire)
\* The whole session id has arrived.
SessionIdArrived ==
  /\ Len(wire) >= 1
  /\ Len(wire) >= SessionIdLength
  /\ \A o \in 0..(SessionIdLength - 1) : o \in received
\* The stream has ended: the FIN and every byte before it have arrived.
StreamEnded == close_offset # {} /\ received = 0..(Len(wire) - 1)
IsOnDataAvailableStep ==
  uni_last' \notin {"none", "OnStreamFrame", "OnFinFrame"}

\* C8: a received unidirectional stream is associated (session_id_ bound and
\* AssociateIncomingWebTransportStreamWithSession called, once) exactly when an
\* OnDataAvailable finds its whole session id readable; an OnDataAvailable on a
\* stream that has ended with the session id incomplete consumes every buffered
\* byte and associates nothing, then or later; one on a stream that has not ended
\* and whose session id is incomplete consumes nothing.
C8_State ==
  /\ Len(associations) <= 1
  /\ session_id_ # {} <=> Len(associations) = 1
  /\ session_id_ # {} =>
       /\ SessionIdArrived
       /\ session_id_ = {4}
       /\ associations = <<4>>
       /\ num_bytes_consumed = SessionIdLength
  /\ (StreamEnded /\ ~SessionIdArrived) => session_id_ = {}
  /\ session_id_ = {} => num_bytes_consumed \in {0, Len(wire)}
  /\ adapter_notified => session_id_ # {}

C8_Step ==
  (IsOnDataAvailableStep /\ session_id_ = {}) =>
     /\ SessionIdArrived =>
          /\ session_id_' = {4}
          /\ associations' = <<4>>
          /\ num_bytes_consumed' = SessionIdLength
     /\ (~SessionIdArrived /\ StreamEnded) =>
          /\ num_bytes_consumed' = Len(wire)
          /\ NumBytesBuffered' = 0
          /\ session_id_' = {}
          /\ associations' = <<>>
     /\ (~SessionIdArrived /\ ~StreamEnded) =>
          /\ num_bytes_consumed' = num_bytes_consumed
          /\ session_id_' = {}
          /\ associations' = <<>>

C8_AssociatedIffReadable == []C8_State /\ [][C8_Step]_vars

\* A stream that ended in the middle of a two-byte session id: its one byte is
\* consumed and nothing is associated.
C8_Witness ==
  /\ wire = <<64>>
  /\ StreamEnded
  /\ uni_last = "ReadSessionId: stream ended prematurely"
  /\ num_bytes_consumed = 1
  /\ session_id_ = {}
  /\ associations = <<>>

\* ---- the error-code mapping ----

\* A uint64_t is held as two limbs, value = hi * Limb + lo with 0 <= lo < Limb, so
\* that the 48-bit code points are computed exactly.
Limb == 2^24
U64(hi, lo) == [hi |-> hi, lo |-> lo]
U64Less(a, b) == a.hi < b.hi \/ (a.hi = b.hi /\ a.lo < b.lo)
\* a + n for a small n >= 0
U64Add(a, n) == U64(a.hi + (a.lo + n) \div Limb, (a.lo + n) % Limb)
\* a - n for a small n with 0 <= n <= a
U64SubSmall(a, n) ==
  IF a.lo >= n THEN U64(a.hi, a.lo - n) ELSE U64(a.hi - 1, a.lo + Limb - n)
\* a % m for a small m
U64Mod(a, m) == ((a.hi % m) * (Limb % m) + (a.lo % m)) % m
\* a - b for b <= a with a difference below Limb
U64Diff(a, b) == (a.hi - b.hi) * Limb + (a.lo - b.lo)

\* 0x52e4a40fa8db and 0x52e4a40fa9e2
kWebTransportMappedErrorCodeFirst == U64(5432484, 1026267)
kWebTransportMappedErrorCodeLast == U64(5432484, 1026530)

\* Mutant: the GREASE code points are skipped every 0x1f error codes, not every 0x1e.
WebTransportErrorToHttp3_SkipsLate(webtransport_error_code) ==
  U64Add(kWebTransportMappedErrorCodeFirst,
         webtransport_error_code + webtransport_error_code \div 31)

\* WebTransportErrorToHttp3: first + code + code / 0x1e
WebTransportErrorToHttp3(webtransport_error_code) ==
  U64Add(kWebTransportMappedErrorCodeFirst,
         webtransport_error_code + webtransport_error_code \div 30)

\* The uint64_t result that Http3ErrorToWebTransport computes for a code point in
\* range: shifted - shifted / 0x1f
MappedResult(http3_error_code) ==
  LET shifted == U64Diff(http3_error_code, kWebTransportMappedErrorCodeFirst)
  IN  shifted - shifted \div 31

\* Mutant: the GREASE code points are not excluded.
Http3ErrorToWebTransport_NoGrease(http3_error_code) ==
  IF \/ U64Less(http3_error_code, kWebTransportMappedErrorCodeFirst)
     \/ U64Less(kWebTransportMappedErrorCodeLast, http3_error_code)
  THEN {}
  ELSE { MappedResult(http3_error_code) % 256 }

\* Http3ErrorToWebTransport: {} is absl::nullopt, {e} holds the error code e, which
\* is the uint64_t result narrowed to the 8 bits of a WebTransportStreamError.
Http3ErrorToWebTransport(http3_error_code) ==
  IF \/ U64Less(http3_error_code, kWebTransportMappedErrorCodeFirst)
     \/ U64Less(kWebTransportMappedErrorCodeLast, http3_error_code)
  THEN {}
  ELSE IF U64Mod(U64SubSmall(http3_error_code, 33), 31) = 0
  THEN {}
  ELSE { MappedResult(http3_error_code) % 256 }

\* The inputs: every WebTransport stream error, and the HTTP/3 error codes from
\* Margin below the first mapped code to Margin above the last, with some far
\* from the mapped range.
Margin == 4
WebTransportErrors == 0..255
Http3Errors ==
  { U64Add(U64SubSmall(kWebTransportMappedErrorCodeFirst, Margin), n) :
      n \in 0..(U64Diff(kWebTransportMappedErrorCodeLast,
                        kWebTransportMappedErrorCodeFirst) + 2 * Margin) }
  \cup { U64(0, 0), U64(0, 33), U64(5432484, 0), U64(5432485, 1026267),
         U64(Limb * 64 - 1, Limb - 1) }

Encode(e) ==
  /\ codec_call' = [function |-> "WebTransportErrorToHttp3", input |-> e,
                    result |-> WebTransportErrorToHttp3(e)]
  /\ UNCHANGED <<session_vars, uni_vars>>

Decode(h) ==
  /\ codec_call' = [function |-> "Http3ErrorToWebTransport", input |-> h,
                    result |-> Http3ErrorToWebTransport(h)]
  /\ UNCHANGED <<session_vars, uni_vars>>

NextCodec ==
  \/ \E e \in WebTransportErrors : Encode(e)
  \/ \E h \in Http3Errors : Decode(h)

SpecCodec == Init /\ [][NextCodec]_vars

IsGrease(h) == U64Mod(U64SubSmall(h, 33), 31) = 0

\* C10: for every e in 0..255 the encoded value lies in [FIRST, LAST], is not a
\* GREASE code point and decodes to e; every h that decodes, decodes to a value of
\* at most 255 whose encoding is h.
C10_RoundTrip ==
  /\ codec_call.function = "WebTransportErrorToHttp3" =>
       /\ ~U64Less(codec_call.result, kWebTransportMappedErrorCodeFirst)
       /\ ~U64Less(kWebTransportMappedErrorCodeLast, codec_call.result)
       /\ ~IsGrease(codec_call.result)
       /\ Http3ErrorToWebTransport(codec_call.result) = { codec_call.input }
  /\ (codec_call.function = "Http3ErrorToWebTransport" /\ codec_call.result # {}) =>
       /\ MappedResult(codec_call.input) <= 255
       /\ \A e \in codec_call.result : WebTransportErrorToHttp3(e) = codec_call.input

C10_Witness ==
  /\ codec_call.function = "Http3ErrorToWebTransport"
  /\ codec_call.input = kWebTransportMappedErrorCodeLast
  /\ codec_call.result = { 255 }

\* ---- GREASE code points ----

\* 0x52e4a40fa8fc, which is FIRST + 0x21, and 0x52e4a40fa8f9, which is FIRST + 0x1e
FirstPlus0x21 == U64Add(kWebTransportMappedErrorCodeFirst, 33)
FirstPlus0x1e == U64Add(kWebTransportMappedErrorCodeFirst, 30)
Decoded(h) == codec_call.function = "Http3ErrorToWebTransport" /\ codec_call.input = h

\* C11 as stated: Http3ErrorToWebTransport(0x52e4a40fa8fc), the decoding of
\* FIRST + 0x21, returns nothing.
C11_Original == Decoded(FirstPlus0x21) => codec_call.result = {}

\* C11 amended: 0x52e4a40fa8fc (FIRST + 0x21) is not a GREASE code point, since
\* (h - 0x21) mod 0x1f is 3 for it, and it decodes to 32; the GREASE code points
\* of the mapped range are FIRST + 0x1e + 0x1f * k, the first of them
\* 0x52e4a40fa8f9, and each of them decodes to nothing.
C11_GreaseRejected ==
  /\ Decoded(FirstPlus0x21) =>
       /\ U64Mod(U64SubSmall(codec_call.input, 33), 31) = 3
       /\ codec_call.result = {32}
  /\ \A k \in 0..7 :
       Decoded(U64Add(FirstPlus0x1e, 31 * k)) =>
         /\ U64Mod(U64SubSmall(codec_call.input, 33), 31) = 0
         /\ codec_call.result = {}
  /\ (codec_call.function = "Http3ErrorToWebTransport" /\ IsGrease(codec_call.input))
       => codec_call.result = {}

C11_Witness == Decoded(FirstPlus0x21) /\ codec_call.result = {32}

\* ---- WebTransportHttp3::AcceptIncomingBidirectionalStream and ----
\* ---- WebTransportHttp3::AcceptIncomingUnidirectionalStream    ----

\* The data streams that are associated and polled for.
PolledStreamIds == 4..9

\* Mutant: an id the platform cannot resolve is not skipped; the poll ends there.
PollQueue_NoSkip(queue, live) ==
  IF queue = <<>>
  THEN [queue |-> <<>>, stream |-> {}]
  ELSE IF Head(queue) \notin live
  THEN [queue |-> Tail(queue), stream |-> {}]
  ELSE [queue |-> Tail(queue), stream |-> {Head(queue)}]

\* The loop of both functions: live holds the ids that
\* session_->GetOrCreateSpdyDataStream / GetOrCreateStream resolve to a stream
\* (nullptr for every other id).  The result is the queue that is left and the
\* stream returned: {} is nullptr.
RECURSIVE PollQueue(_, _)
PollQueue(queue, live) ==
  IF queue = <<>>
  THEN [queue |-> <<>>, stream |-> {}]
  ELSE IF Head(queue) \notin live
  THEN PollQueue(Tail(queue), live)
  ELSE [queue |-> Tail(queue), stream |-> {Head(queue)}]

AcceptIncomingBidirectionalStream(live) ==
  LET polled == PollQueue(incoming_bidirectional_streams_, live)
  IN  /\ CanCall
      /\ Record("AcceptIncomingBidirectionalStream",
                [live |-> live, stream |-> polled.stream])
      /\ incoming_bidirectional_streams_' = polled.queue
      /\ UNCHANGED <<perspective, ready_, close_vars, streams_,
                     incoming_unidirectional_streams_, context_vars, visitor_calls,
                     connect_writes, stream_resets, datagram_calls>>

AcceptIncomingUnidirectionalStream(live) ==
  LET polled == PollQueue(incoming_unidirectional_streams_, live)
  IN  /\ CanCall
      /\ Record("AcceptIncomingUnidirectionalStream",
                [live |-> live, stream |-> polled.stream])
      /\ incoming_unidirectional_streams_' = polled.queue
      /\ UNCHANGED <<perspective, ready_, close_vars, streams_,
                     incoming_bidirectional_streams_, context_vars, visitor_calls,
                     connect_writes, stream_resets, datagram_calls>>

SeqRange(s) == { s[i] : i \in 1..Len(s) }

\* Streams are associated and polled for in any order; at each poll the platform
\* resolves any part of the queued ids.
NextAccept ==
  \/ \E id \in PolledStreamIds : AssociateStream(id)
  \/ \E live \in SUBSET SeqRange(incoming_bidirectional_streams_) :
       AcceptIncomingBidirectionalStream(live)
  \/ \E live \in SUBSET SeqRange(incoming_unidirectional_streams_) :
       AcceptIncomingUnidirectionalStream(live)

SpecAccept == Init /\ [][NextAccept]_vars

\* The incoming ids of one direction in the order of their AssociateStream calls.
IsIncomingAssociation(c, bidirectional) ==
  /\ c.op = "AssociateStream"
  /\ ~IsOutgoingStreamId(c.arg, perspective)
  /\ IsBidirectionalStreamId(c.arg) = bidirectional
IsIncomingBidirectional(c) == IsIncomingAssociation(c, TRUE)
IsIncomingUnidirectional(c) == IsIncomingAssociation(c, FALSE)
IsSuffix(s, t) == Len(s) <= Len(t) /\ s = SubSeq(t, Len(t) - Len(s) + 1, Len(t))
ArgsOf(cs) == [i \in 1..Len(cs) |-> cs[i].arg]
\* How often the polls of one function have returned id, how often id was queued.
TimesReturned(op, id) ==
  Cardinality({ i \in 1..Len(calls) : calls[i].op = op /\ calls[i].arg.stream = {id} })
TimesAssociated(id) ==
  Cardinality({ i \in 1..Len(calls) : calls[i].op = "AssociateStream" /\ calls[i].arg = id })

\* What one poll of a queue must do, given the queue before and after, the ids
\* the platform resolves and the stream returned.
PolledRight(before, after, live, stream) ==
  IF \A i \in 1..Len(before) : before[i] \notin live
  THEN stream = {} /\ after = <<>>
  ELSE \E n \in 1..Len(before) :
         /\ before[n] \in live
         /\ \A i \in 1..(n - 1) : before[i] \notin live
         /\ stream = {before[n]}
         /\ after = SubSeq(before, n + 1, Len(before))

C12_State ==
  /\ IsSuffix(incoming_bidirectional_streams_,
              ArgsOf(SelectSeq(calls, IsIncomingBidirectional)))
  /\ IsSuffix(incoming_unidirectional_streams_,
              ArgsOf(SelectSeq(calls, IsIncomingUnidirectional)))
  /\ \A id \in PolledStreamIds :
       /\ TimesReturned("AcceptIncomingBidirectionalStream", id)
            + TimesReturned("AcceptIncomingUnidirectionalStream", id)
            <= TimesAssociated(id)
       /\ TimesReturned("AcceptIncomingBidirectionalStream", id) > 0
            => ~IsOutgoingStreamId(id, perspective) /\ IsBidirectionalStreamId(id)
       /\ TimesReturned("AcceptIncomingUnidirectionalStream", id) > 0
            => ~IsOutgoingStreamId(id, perspective) /\ ~IsBidirectionalStreamId(id)

C12_Step ==
  /\ Step("AcceptIncomingBidirectionalStream") =>
       /\ PolledRight(incoming_bidirectional_streams_, incoming_bidirectional_streams_',
                      calls'[Len(calls')].arg.live, calls'[Len(calls')].arg.stream)
       /\ UNCHANGED incoming_unidirectional_streams_
  /\ Step("AcceptIncomingUnidirectionalStream") =>
       /\ PolledRight(incoming_unidirectional_streams_,
                      incoming_unidirectional_streams_',
                      calls'[Len(calls')].arg.live, calls'[Len(calls')].arg.stream)
       /\ UNCHANGED incoming_bidirectional_streams_

\* C12: a poll for an incoming stream pops ids from its queue in the order in
\* which they were associated, skips every id the platform does not resolve,
\* returns the first id it does resolve and leaves what follows it queued, and
\* returns nothing only with the queue drained; no id is returned more often than
\* it was queued.
C12_AcceptInOrder == []C12_State /\ [][C12_Step]_vars

\* Two incoming bidirectional streams, the first one reset before the poll: the
\* poll returns the second, the next poll returns nothing.
C12_Witness ==
  /\ Len(calls) = 4
  /\ calls[1].op = "AssociateStream"
  /\ calls[2].op = "AssociateStream"
  /\ calls[1].arg # calls[2].arg
  /\ calls[3].op = "AcceptIncomingBidirectionalStream"
  /\ calls[3].arg.live = {calls[2].arg}
  /\ calls[3].arg.stream = {calls[2].arg}
  /\ calls[4].op = "AcceptIncomingBidirectionalStream"
  /\ calls[4].arg.stream = {}
  /\ incoming_bidirectional_streams_ = <<>>

\* ---- the adopted context id ----

C13_Step ==
  context_is_known_ => (context_is_known_' /\ context_id_' = context_id_)

\* C13: on a client and on a server, under every order of OnContextReceived,
\* OnContextClosed, OnHttp3Datagram and OnConnectStreamClosing, no step changes
\* context_id in a state where context_is_known holds, and context_is_known never
\* returns to false; a client knows its context from construction.
C13_ContextIdImmutable ==
  /\ [](perspective = "IS_CLIENT" => context_is_known_)
  /\ [][C13_Step]_vars

\* A server adopted context id 0; a well-formed registration of another context
\* id and a datagram came after it, and the context id is still 0.
C13_Witness ==
  /\ perspective = "IS_SERVER"
  /\ Len(calls) = 3
  /\ WellFormedRegistrationAt(1)
  /\ calls[1].arg.context_id = {0}
  /\ WellFormedRegistrationAt(2)
  /\ calls[2].arg.context_id = NoContext
  /\ calls[3].op = "OnHttp3Datagram"
  /\ context_is_known_
  /\ context_id_ = {0}

\* ---- programmer misuse of the close handlers ----

C14_Step ==
  (Step("OnCloseReceived") /\ close_received_) =>
     /\ error_code_' = error_code_
     /\ error_message_' = error_message_
     /\ connect_writes' = connect_writes
     /\ visitor_calls' = visitor_calls

\* C14: an OnCloseReceived called with close_received already set (by an earlier
\* OnCloseReceived or by OnConnectStreamFinReceived) returns early: it leaves
\* error_code and error_message unchanged, writes no further FIN on the connect
\* stream and makes no visitor call.
C14_DuplicateCloseReceived == [][C14_Step]_vars

IsCapsuleWrite(w) == w.write = "CLOSE_WEBTRANSPORT_SESSION"

C15_Step ==
  (Step("CloseSession") /\ close_sent_) =>
     /\ UNCHANGED <<close_sent_, close_received_, close_notified_, error_code_,
                    error_message_>>
     /\ connect_writes' = connect_writes
     /\ visitor_calls' = visitor_calls

\* C15: a CloseSession called with close_sent already set leaves close_sent,
\* close_received, close_notified, error_code and error_message unchanged and
\* writes nothing on the connect stream; at most one CLOSE_WEBTRANSPORT_SESSION
\* capsule is written per session, and only with close_sent set.
C15_SecondCloseRejected ==
  /\ [](/\ Len(SelectSeq(connect_writes, IsCapsuleWrite)) <= 1
        /\ Len(SelectSeq(connect_writes, IsCapsuleWrite)) = 1 => close_sent_)
  /\ [][C15_Step]_vars

C15_Witness ==
  /\ Len(calls) = 2
  /\ calls[1].op = "CloseSession"
  /\ calls[1].arg = [code |-> 17, message |-> "bye"]
  /\ calls[2].op = "CloseSession"
  /\ calls[2].arg = [code |-> 9, message |-> "srv"]
  /\ close_sent_
  /\ error_code_ = 17
  /\ error_message_ = "bye"
  /\ connect_writes = << CapsuleWrite(17, "bye") >>

\* ---- callbacks that re-enter the session while OnConnectStreamClosing runs ----

\* Handlers are called one at a time; while OnConnectStreamClosing is in its loop
\* the only calls are the OnStreamClosed callbacks of the streams it has reset.
NextClosing ==
  \/ closing_pc = "idle" /\ \E id \in StreamIds : AssociateStream(id)
  \/ closing_pc = "idle" /\ \E id \in StreamIds : OnStreamClosed(id)
  \/ OnConnectStreamClosing_Begin
  \/ \E id \in StreamIds : OnConnectStreamClosing_ResetStream(id)
  \/ closing_pc = "resetting" /\ \E id \in reset_done : OnStreamClosed(id)
  \/ OnConnectStreamClosing_Finish

SpecClosing == Init /\ [][NextClosing]_vars

\* How many of the first n calls are an OnConnectStreamClosing that found id in
\* the stream set.
TimesSwept(id, n) ==
  Cardinality({ k \in 1..n : calls[k].op = "OnConnectStreamClosing" /\ id \in LiveIn(k - 1) })

C16_State ==
  /\ closing_pc = "resetting" =>
       /\ streams_ = {}
       /\ LastCallIs("OnConnectStreamClosing") \/ LastCallIs("OnStreamClosed")
       /\ reset_done \subseteq streams
  /\ \A id \in StreamIds :
       CopiesIn(SessionGone(id), stream_resets) =
         TimesSwept(id, Len(calls)) - (IF id \in streams \ reset_done THEN 1 ELSE 0)

C16_Step ==
  /\ (closing_pc = "idle" /\ closing_pc' = "resetting") =>
       /\ streams' = streams_
       /\ streams_' = {}
       /\ stream_resets' = stream_resets
  /\ (closing_pc = "resetting" /\ Step("OnStreamClosed")) =>
       /\ streams_ = {}
       /\ streams_' = {}
       /\ UNCHANGED <<streams, reset_done, stream_resets>>
  /\ (closing_pc = "resetting" /\ closing_pc' = "idle") =>
       /\ streams_ = {}
       /\ streams_' = {}
       /\ close_notified_'
       /\ reset_done = streams
       /\ \A id \in streams :
            CopiesIn(SessionGone(id), stream_resets') = TimesSwept(id, Len(calls))
  /\ (closing_pc = "resetting" /\ reset_done' # reset_done /\ closing_pc' = "resetting") =>
       \E id \in streams \ reset_done :
         /\ reset_done' = reset_done \cup {id}
         /\ stream_resets' = stream_resets (+) SetToBag({ SessionGone(id) })
         /\ streams_' = {}
  /\ visitor_calls' # visitor_calls => streams_ = {} \/ Step("AssociateStream")

\* C16: OnConnectStreamClosing copies the stream set and clears it before the
\* first ResetStream call; while it resets the copied ids the stream set is empty,
\* so an OnStreamClosed callback of a stream being reset finds it empty and
\* changes nothing; every copied id is reset exactly once by the call; and the
\* stream set is empty when OnSessionClosed is delivered.
C16_EmptyWhileResetting == []C16_State /\ [][C16_Step]_vars

\* Two streams were associated; the loop has reset one of them, whose
\* OnStreamClosed callback ran before the other is reset.
C16_Witness ==
  /\ closing_pc = "resetting"
  /\ Cardinality(streams) = 2
  /\ Cardinality(reset_done) = 1
  /\ LastCallIs("OnStreamClosed")
  /\ calls[Len(calls)].arg \in reset_done
  /\ streams_ = {}

\* ---- what AssociateStream does with a stream id ----

Associated == calls'[Len(calls')].arg

C17_Step ==
  Step("AssociateStream") =>
    /\ streams_' = streams_ \cup {Associated}
    /\ UNCHANGED <<close_vars, ready_, connect_writes, stream_resets>>
    /\ IsOutgoingStreamId(Associated, perspective) =>
         /\ UNCHANGED <<incoming_bidirectional_streams_,
                        incoming_unidirectional_streams_>>
         /\ visitor_calls' = visitor_calls
    /\ (~IsOutgoingStreamId(Associated, perspective)
          /\ IsBidirectionalStreamId(Associated)) =>
         /\ incoming_bidirectional_streams_' =
              incoming_bidirectional_streams_ \o << Associated >>
         /\ UNCHANGED incoming_unidirectional_streams_
         /\ visitor_calls' = visitor_calls \o
              << VisitorCall("OnIncomingBidirectionalStreamAvailable", 0, "") >>
    /\ (~IsOutgoingStreamId(Associated, perspective)
          /\ ~IsBidirectionalStreamId(Associated)) =>
         /\ incoming_unidirectional_streams_' =
              incoming_unidirectional_streams_ \o << Associated >>
         /\ UNCHANGED incoming_bidirectional_streams_
         /\ visitor_calls' = visitor_calls \o
              << VisitorCall("OnIncomingUnidirectionalStreamAvailable", 0, "") >>

\* C17: AssociateStream(id) inserts id into the stream set; for an outgoing id it
\* changes no queue and makes no visitor call; for an incoming id it appends id to
\* the one incoming queue of the id's direction, makes the one matching
\* OnIncoming...StreamAvailable call and leaves the other queue unchanged.
C17_AssociateStream == [][C17_Step]_vars

\* A server has associated an outgoing stream, an incoming bidirectional one and
\* an incoming unidirectional one.
C17_Witness ==
  /\ perspective = "IS_SERVER"
  /\ Len(calls) = 3
  /\ \A i \in 1..3 : calls[i].op = "AssociateStream"
  /\ streams_ = {1, 2, 4}
  /\ incoming_bidirectional_streams_ = <<4>>
  /\ incoming_unidirectional_streams_ = <<2>>
  /\ Len(visitor_calls) = 2

\* ---- WebTransportHttp3UnidirectionalStream::WritePreamble ----

\* The WritePreamble calls made on one stream.
MaxPreambleCalls == 3
\* The session ids a send-side stream is constructed with.
SessionIds == {0, 4, 64, 300}

\* QuicDataWriter::WriteVarInt62 for a value below 2^14: one byte below 64, else
\* two bytes with 01 in the two high bits of the first.
WriteVarInt62(value) ==
  IF value < 64 THEN << value >> ELSE << 64 + value \div 256, value % 256 >>

\* WriteOrBufferData(buffer, fin = false): the buffer holds the varint62 of
\* kWebTransportUnidirectionalStream, then the varint62 of the session id.
PreambleWrite(session_id) ==
  [stream_type_tag |-> "kWebTransportUnidirectionalStream",
   session_id |-> WriteVarInt62(session_id), fin |-> FALSE]

CanWritePreamble == Len(stream_writes) + Len(stream_errors) < MaxPreambleCalls

\* Mutant: needs_to_send_preamble_ is not cleared.
WritePreamble_KeepsFlag ==
  /\ CanWritePreamble
  /\ IF ~needs_to_send_preamble_ \/ session_id_ = {}
     THEN /\ stream_errors' = Append(stream_errors, "QUIC_INTERNAL_ERROR")
          /\ uni_last' = "WritePreamble: QUIC_BUG"
          /\ UNCHANGED stream_writes
     ELSE /\ stream_writes' =
               Append(stream_writes, PreambleWrite(CHOOSE id \in session_id_ : TRUE))
          /\ uni_last' = "WritePreamble: written"
          /\ UNCHANGED stream_errors
  /\ UNCHANGED <<needs_to_send_preamble_, stream_type, wire, received,
                 num_bytes_consumed, close_offset, session_id_, associations,
                 adapter_notified, session_vars, codec_call>>

WritePreamble ==
  /\ CanWritePreamble
  /\ IF ~needs_to_send_preamble_ \/ session_id_ = {}
     THEN \* QUIC_BUG, OnUnrecoverableError, return
          /\ stream_errors' = Append(stream_errors, "QUIC_INTERNAL_ERROR")
          /\ uni_last' = "WritePreamble: QUIC_BUG"
          /\ UNCHANGED <<stream_writes, needs_to_send_preamble_>>
     ELSE /\ stream_writes' =
               Append(stream_writes, PreambleWrite(CHOOSE id \in session_id_ : TRUE))
          /\ needs_to_send_preamble_' = FALSE
          /\ uni_last' = "WritePreamble: written"
          /\ UNCHANGED stream_errors
  /\ UNCHANGED <<stream_type, wire, received, num_bytes_consumed, close_offset,
                 session_id_, associations, adapter_notified, session_vars,
                 codec_call>>

\* The constructor of a send-side stream (lines 369-375).
InitSendSide(session_id) ==
  /\ InitSession("IS_SERVER", FALSE)
  /\ buffered_streams = <<>>
  /\ wire = <<>>
  /\ received = {}
  /\ num_bytes_consumed = 0
  /\ close_offset = {}
  /\ session_id_ = {session_id}
  /\ associations = <<>>
  /\ adapter_notified = FALSE
  /\ uni_last = "none"
  /\ stream_type = "WRITE_UNIDIRECTIONAL"
  /\ needs_to_send_preamble_ = TRUE
  /\ stream_writes = <<>>
  /\ stream_errors = <<>>
  /\ NoMapping

\* A stream of either side; a receive-side stream also receives its data.
InitPreamble ==
  \/ \E id \in SessionIds : InitSendSide(id)
  \/ InitUni

NextPreamble ==
  \/ WritePreamble
  \/ stream_type = "READ_UNIDIRECTIONAL" /\ \E o \in 0..(Len(wire) - 1) : OnStreamFrame(o)
  \/ stream_type = "READ_UNIDIRECTIONAL" /\ OnFinFrame
  \/ stream_type = "READ_UNIDIRECTIONAL" /\ OnDataAvailable

SpecPreamble == InitPreamble /\ [][NextPreamble]_vars

PreambleCalls == Len(stream_writes) + Len(stream_errors)
IsWritePreambleStep == PreambleCalls' = PreambleCalls + 1

C18_State ==
  /\ Len(stream_writes) <= 1
  /\ stream_type = "READ_UNIDIRECTIONAL" =>
       stream_writes = <<>> /\ ~needs_to_send_preamble_
  /\ stream_type = "WRITE_UNIDIRECTIONAL" =>
       (needs_to_send_preamble_ <=> PreambleCalls = 0)
  /\ stream_writes # <<>> =>
       /\ stream_writes[1].stream_type_tag = "kWebTransportUnidirectionalStream"
       /\ ReadVarInt62(stream_writes[1].session_id) = session_id_
       /\ Len(stream_writes[1].session_id) = PeekVarInt62Length(stream_writes[1].session_id)

C18_Step ==
  IsWritePreambleStep =>
    IF stream_type = "WRITE_UNIDIRECTIONAL" /\ PreambleCalls = 0
    THEN /\ Len(stream_writes') = 1
         /\ ~needs_to_send_preamble_'
         /\ stream_errors' = stream_errors
    ELSE /\ stream_writes' = stream_writes
         /\ stream_errors' = stream_errors \o << "QUIC_INTERNAL_ERROR" >>
         /\ needs_to_send_preamble_' = needs_to_send_preamble_

\* C18: the first WritePreamble on a send-side stream writes the stream-type tag
\* followed by the session id and clears needs_to_send_preamble; every other
\* WritePreamble, a repeated one on a send-side stream or any one on a
\* receive-side stream, writes nothing and fails the stream with
\* QUIC_INTERNAL_ERROR; the preamble of a stream is written at most once.
C18_PreambleOnce == []C18_State /\ [][C18_Step]_vars

\* A send-side stream after its second WritePreamble.
C18_Witness ==
  /\ stream_type = "WRITE_UNIDIRECTIONAL"
  /\ session_id_ = {300}
  /\ stream_writes = << PreambleWrite(300) >>
  /\ stream_errors = << "QUIC_INTERNAL_ERROR" >>
  /\ ~needs_to_send_preamble_

\* ---- closing a datagram context ----

ContextClosed == calls'[Len(calls')].arg

C19_Step ==
  Step("OnContextClosed") =>
    /\ UNCHANGED <<context_vars, close_vars, visitor_calls, connect_writes,
                   datagram_calls>>
    /\ IF /\ ContextClosed.stream_id = ConnectStreamId
          /\ context_is_known_
          /\ ContextClosed.context_id = context_id_
       THEN stream_resets' =
              stream_resets (+) SetToBag({ <<ConnectStreamId, "QUIC_BAD_APPLICATION_PAYLOAD">> })
       ELSE stream_resets' = stream_resets

\* C19: OnContextClosed resets the connect stream with
\* QUIC_BAD_APPLICATION_PAYLOAD exactly when it is called for the connect stream's
\* id and the adopted context id; a close for another stream id or another
\* context id resets nothing and changes no state, and neither does a close on a
\* server that has not adopted a context yet (context_is_known false).
C19_ContextClosed == [][C19_Step]_vars

\* ---- HeadersReceived and the streams buffered for the session ----

\* The streams buffered per session.
MaxBuffered == 2

\* Buffered streams are streams of the peer: sequences of distinct incoming ids.
BufferedInputs(p) ==
  { b \in UNION { [1..n -> { id \in StreamIds : ~IsOutgoingStreamId(id, p) }] :
                    n \in 0..MaxBuffered } :
      \A i, j \in 1..Len(b) : i # j => b[i] # b[j] }

\* Header blocks around the ends of the 2xx range.
StatusHeaderBlocks ==
  HeaderBlocks \cup { [parsed |-> TRUE, status_code |-> c] : c \in {199, 299, 300} }

InitHeaders ==
  /\ \E p \in {"IS_CLIENT", "IS_SERVER"} :
       /\ \E attempt \in BOOLEAN : InitSession(p, attempt)
       /\ buffered_streams \in BufferedInputs(p)
  /\ wire = <<>>
  /\ received = {}
  /\ num_bytes_consumed = 0
  /\ close_offset = {}
  /\ session_id_ = {}
  /\ associations = <<>>
  /\ adapter_notified = FALSE
  /\ uni_last = "none"
  /\ stream_type = "READ_UNIDIRECTIONAL"
  /\ needs_to_send_preamble_ = FALSE
  /\ stream_writes = <<>>
  /\ stream_errors = <<>>
  /\ NoMapping

NextHeaders == \E h \in StatusHeaderBlocks : HeadersReceived(h)

SpecHeaders == InitHeaders /\ [][NextHeaders]_vars

Received == calls'[Len(calls')].arg
Is2xx(h) == h.parsed /\ h.status_code \in 200..299
IsIncomingAvailable(v) ==
  v.call \in {"OnIncomingBidirectionalStreamAvailable",
              "OnIncomingUnidirectionalStreamAvailable"}
AvailableCallFor(id) ==
  IF IsBidirectionalStreamId(id)
  THEN VisitorCall("OnIncomingBidirectionalStreamAvailable", 0, "")
  ELSE VisitorCall("OnIncomingUnidirectionalStreamAvailable", 0, "")

C20_State ==
  /\ \A i \in 1..Len(visitor_calls) :
       IsIncomingAvailable(visitor_calls[i]) =>
         \E j \in 1..(i - 1) : visitor_calls[j].call = "OnSessionReady"
  /\ ~ready_ => /\ visitor_calls = <<>>
                /\ streams_ = {}
                /\ incoming_bidirectional_streams_ = <<>>
                /\ incoming_unidirectional_streams_ = <<>>

C20_Step ==
  Step("HeadersReceived") =>
    IF perspective = "IS_CLIENT" /\ ~Is2xx(Received)
    THEN /\ ready_' = ready_
         /\ visitor_calls' = visitor_calls
         /\ buffered_streams' = buffered_streams
         /\ UNCHANGED <<streams_, incoming_bidirectional_streams_,
                        incoming_unidirectional_streams_>>
    ELSE /\ ready_'
         /\ visitor_calls' =
              visitor_calls \o << OnSessionReadyCall >>
                \o [i \in 1..Len(buffered_streams) |-> AvailableCallFor(buffered_streams[i])]
         /\ streams_' = streams_ \cup SeqRange(buffered_streams)
         /\ incoming_bidirectional_streams_' =
              incoming_bidirectional_streams_
                \o SelectSeq(buffered_streams, IsBidirectionalStreamId)
         /\ incoming_unidirectional_streams_' =
              incoming_unidirectional_streams_
                \o SelectSeq(buffered_streams, LAMBDA id : ~IsBidirectionalStreamId(id))
         /\ buffered_streams' = <<>>

\* C20: on a client, HeadersReceived with a missing, unparsable or non-2xx status
\* changes nothing: ready stays as it is, OnSessionReady is not called and the
\* buffered streams stay buffered.  With a 2xx status, or on a server, it sets
\* ready, calls OnSessionReady and then associates the buffered streams in order,
\* so every OnIncoming...StreamAvailable of a buffered stream follows an
\* OnSessionReady.
C20_HeadersReceived == []C20_State /\ [][C20_Step]_vars

\* A client with two buffered streams: a 404 and a 300 were rejected, then a 299
\* made the session ready and the two streams were announced after OnSessionReady.
C20_Witness ==
  /\ perspective = "IS_CLIENT"
  /\ Len(calls) = 3
  /\ calls[1].arg.status_code = 404
  /\ calls[2].arg.status_code = 300
  /\ calls[3].arg.status_code = 299
  /\ ready_
  /\ Len(visitor_calls) = 3
  /\ visitor_calls[1] = OnSessionReadyCall
  /\ IsIncomingAvailable(visitor_calls[2])
  /\ IsIncomingAvailable(visitor_calls[3])
  /\ streams_ = {1, 3}
  /\ buffered_streams = <<>>

\* ---- FINs on the connect stream ----

IsFinWrite(w) == w.fin
FinsWritten == Len(SelectSeq(connect_writes, IsFinWrite))

\* C21: under every order of CloseSession, CloseSessionWithFinOnlyForTests,
\* OnCloseReceived, OnConnectStreamFinReceived and OnConnectStreamClosing, at most
\* one write on the connect stream carries a FIN, the close capsule and the empty
\* FIN echo both counted.
C21_OneFin == FinsWritten <= 1

\* ---- the error that was reported ----

\* C22: once OnSessionClosed has been delivered, error_code and error_message are
\* the pair it was delivered with, whatever CloseSession, OnCloseReceived,
\* OnConnectStreamFinReceived or OnConnectStreamClosing calls follow.
C22_ReportedErrorKept ==
  close_notified_ =>
    /\ Len(ClosedCalls) = 1
    /\ ClosedCalls[1].code = error_code_
    /\ ClosedCalls[1].message = error_message_

====
